---- MODULE Spec2Model ----
(***************************************************************************)
(* traefik-fed: federation of the routers of several upstream Traefik      *)
(* instances into one dynamic configuration.                               *)
(*                                                                         *)
(* Strings that the code inspects character by character (upstream names,  *)
(* router names, published keys) are sequences of one-character strings.   *)
(* Strings that are only compared (provider, status, rule, URLs) are       *)
(* plain strings.                                                          *)
(***************************************************************************)
EXTENDS Naturals, Integers, Sequences, FiniteSets, TLC

\* ------------------------------------------------------------------ bounds
\* Longest list of configured upstreams.
MaxUpstreams == 2
\* Most routers the upstreams report in one cycle, all together; a failed
\* fetch counts as one.
MaxRouters == 2

\* ------------------------------------------------------------ input pools
NoTLS == "nil"

Upstream(n, admin, server) == [name |-> n, adminURL |-> admin, serverURL |-> server]

UpstreamPool ==
  { Upstream(<<"a">>, "http://10.0.0.1:8080", "http://10.0.0.1:80"),
    Upstream(<<"a", "-", "b">>, "http://10.0.0.2:8080", "http://10.0.0.2:80"),
    Upstream(<<"c">>, "http://10.0.0.3:8080", "http://10.0.0.3:80") }

RouterInfo(n, p, s, r, ep, mw, t) ==
  [name |-> n, provider |-> p, status |-> s, rule |-> r,
   entryPoints |-> ep, middlewares |-> mw, tls |-> t]

RouterPool ==
  { RouterInfo(<<"m", "@", "d">>, "docker", "enabled", "Host(m.docker)", <<"web">>, <<>>, NoTLS),
    RouterInfo(<<"m", "@", "f", "@", "x">>, "file", "enabled", "Host(m.file)", <<"web">>, <<"auth">>, "own"),
    RouterInfo(<<"b", "-", "m">>, "docker", "disabled", "Host(bm)", <<>>, <<>>, NoTLS),
    RouterInfo(<<"b", "-", "m", "@", "d">>, "docker", "enabled", "Host(bm.docker)", <<>>, <<>>, NoTLS),
    RouterInfo(<<"i", "@", "n">>, "internal", "enabled", "PathPrefix(/api)", <<"traefik">>, <<>>, NoTLS) }

\* RouterDefaults: the entry points, middlewares and TLS configuration of the
\* routers.defaults section; NoDefaults is the section left out.
RouterDefaults(ep, mw, t) == [entryPoints |-> ep, middlewares |-> mw, tls |-> t]
NoDefaults == RouterDefaults(<<>>, <<>>, NoTLS)
DefaultsPool ==
  { NoDefaults,
    RouterDefaults(<<"websecure">>, <<"compress">>, "letsencrypt"),
    RouterDefaults(<<>>, <<>>, "letsencrypt") }

\* Two upstreams configured under one name, which Validate lets through.
SameNamePool ==
  { Upstream(<<"a">>, "http://10.0.0.1:8080", "http://10.0.0.1:80"),
    Upstream(<<"a">>, "http://10.0.0.4:8080", "http://10.0.0.4:80") }

Providers == {"", "docker", "internal"}
RawStatuses == {"", "disabled"}

\* Sequences over S of length at most n, without repeated elements.
SeqsUpTo(S, n) == UNION { [1..k -> S] : k \in 0..n }
Injective(s) == \A i, j \in 1..Len(s) : s[i] = s[j] => i = j
RouterLists == { s \in SeqsUpTo(RouterPool, MaxRouters) : Injective(s) }

\* What one GET <api>/http/routers can come back with.
HTTPResponse(tr, code, rd, dec, rs) ==
  [transportOK |-> tr, statusCode |-> code, readOK |-> rd, decodes |-> dec, routers |-> rs]
OkResponses == { HTTPResponse(TRUE, 200, TRUE, TRUE, rs) : rs \in RouterLists }
FailResponses ==
  { HTTPResponse(FALSE, 0, FALSE, FALSE, <<>>),
    HTTPResponse(TRUE, 500, TRUE, TRUE,
                 <<RouterInfo(<<"m", "@", "d">>, "docker", "enabled", "Host(m.docker)", <<"web">>, <<>>, NoTLS)>>),
    HTTPResponse(TRUE, 200, TRUE, FALSE, <<>>) }
Responses == OkResponses \cup FailResponses

\* The answers of n upstreams whose weights add up to at most budget.
Weight(resp) ==
  IF resp.transportOK /\ resp.statusCode = 200 /\ resp.decodes THEN Len(resp.routers) ELSE 1
RECURSIVE ResponseSeqs(_, _)
ResponseSeqs(n, budget) ==
  IF n = 0 THEN { <<>> }
  ELSE UNION { { <<r>> \o rest : rest \in ResponseSeqs(n - 1, budget - Weight(r)) } :
               r \in { x \in Responses : Weight(x) <= budget } }

\* Most aggregation cycles of one run (the initial one included).
MaxCycles == 2

\* The handlers of the query interface that may run at once.
Readers == {"h1"}

VARIABLES
  config,          \* *config.Config after Load
  responses,       \* what the upstreams' APIs answer in one Aggregate call, by position
  result,          \* what that Aggregate call returned: [done, err, httpConfig]
  \* the running process
  heap,            \* the HTTPConfiguration objects still referenced, by address
  pc,              \* main: where the poll loop stands
  nextUp,          \* Aggregate: the next upstream of its loop
  cur,             \* runAggregation: httpConfig, the address Aggregate allocated
  cycles,          \* aggregations started so far
  tick,            \* main's ticker.C holds a tick
  sig,             \* sigChan holds a signal
  cancelled,       \* ctx is cancelled
  srvState,        \* HTTPServer.Start: "starting", "serving" or "failed"
  mu,              \* HTTPServer.mu: [w, r, pending]
  srvConfig,       \* HTTPServer.config, an address
  completed,       \* history: the address the last completed UpdateConfig was given
  readers,         \* handleConfig per handler: [pc, config]
  fileConfigChan,  \* the channel of capacity 1 to the file writer
  wpc,             \* FileWriter: where Start / writeConfig stands
  currentConfig,   \* FileWriter.Start: currentConfig, an address or NoPtr
  wconfig,         \* FileWriter.writeConfig: its parameter config
  ftick,           \* the file writer's ticker.C holds a tick
  final,           \* the file at w.path: [exists, data, by]
  tmp              \* the file at w.path + ".tmp": [exists, data, by]

aggVars == <<config, responses, result>>
schedVars == <<pc, nextUp, cur, cycles, tick, sig, cancelled>>
srvVars == <<srvState, mu, srvConfig, completed, readers>>
fileVars == <<fileConfigChan, wpc, currentConfig, wconfig, ftick, final, tmp>>
sysVars == <<heap, schedVars, srvVars, fileVars>>
vars == <<aggVars, sysVars>>

\* ------------------------------------------------------------- config.Load
\* The defaults Load sets after parsing; only the selector is modelled here.
LoadNoDefault(raw) == raw

Load(raw) ==
  [raw EXCEPT !.selector.status = IF raw.selector.status = "" THEN "enabled" ELSE raw.selector.status]

\* ---------------------------------------------------------- traefik client
\* Client.GetRouters: any transport error, non-200 status, read error or
\* undecodable body is an error; otherwise the decoded list.
GetRouters(resp) ==
  IF ~resp.transportOK THEN [err |-> TRUE, routers |-> <<>>]
  ELSE IF resp.statusCode # 200 THEN [err |-> TRUE, routers |-> <<>>]
  ELSE IF ~resp.readOK THEN [err |-> TRUE, routers |-> <<>>]
  ELSE IF ~resp.decodes THEN [err |-> TRUE, routers |-> <<>>]
  ELSE [err |-> FALSE, routers |-> resp.routers]

KeepRouterNoInternal(router, provider, status) ==
  /\ ~(provider # "" /\ router.provider # provider)
  /\ ~(status # "" /\ router.status # status)

KeepRouterNoProvider(router, provider, status) ==
  /\ router.provider # "internal"
  /\ ~(status # "" /\ router.status # status)

\* The test FilterRouters applies to one router.
KeepRouter(router, provider, status) ==
  /\ router.provider # "internal"
  /\ ~(provider # "" /\ router.provider # provider)
  /\ ~(status # "" /\ router.status # status)

\* FilterRouters: the routers that pass, in their order.
FilterRouters(routers, provider, status) ==
  SelectSeq(routers, LAMBDA router : KeepRouter(router, provider, status))

\* --------------------------------------------------------------- aggregator
\* strings.Index(s, c): 0-based index of the first c in s, or -1.
Index(s, c) ==
  IF \E i \in 1..Len(s) : s[i] = c
  THEN (CHOOSE i \in 1..Len(s) : s[i] = c /\ \A j \in 1..(i - 1) : s[j] # c) - 1
  ELSE -1

LastIndex(s, c) ==
  IF \E i \in 1..Len(s) : s[i] = c
  THEN (CHOOSE i \in 1..Len(s) : s[i] = c /\ \A j \in (i + 1)..Len(s) : s[j] # c) - 1
  ELSE -1

BaseNameLast(name) ==
  LET idx == LastIndex(name, "@") IN IF idx # -1 THEN SubSeq(name, 1, idx) ELSE name

\* The name with the provider suffix trimmed: baseName[:idx].
BaseName(name) ==
  LET idx == Index(name, "@") IN IF idx # -1 THEN SubSeq(name, 1, idx) ELSE name

ServiceName(upstream) == upstream.name \o <<"-", "t", "r", "a", "e", "f", "i", "k">>
RouterNameNoPrefix(upstream, router) == BaseName(router.name)

RouterName(upstream, router) == upstream.name \o <<"-">> \o BaseName(router.name)

Service(upstream) == [servers |-> <<upstream.serverURL>>]

\* The router published for one selected remote router. from is a history
\* field: the upstream and the remote router the entry was derived from.
NewRouter(upstream, router) ==
  [rule |-> router.rule,
   service |-> ServiceName(upstream),
   entryPoints |-> router.entryPoints,
   middlewares |-> router.middlewares,
   tls |-> router.tls,
   from |-> [upstream |-> upstream, router |-> router]]

\* A variant of the map assignment that keeps an entry already there.
PutKeepFirst(m, k, v) == [x \in DOMAIN m \cup {k} |-> IF x \in DOMAIN m THEN m[x] ELSE v]

Put(m, k, v) == [x \in DOMAIN m \cup {k} |-> IF x = k THEN v ELSE m[x]]

EmptyMap == [x \in {} |-> NoTLS]
EmptyHTTPConfiguration == [routers |-> EmptyMap, services |-> EmptyMap]

RECURSIVE AddRouters(_, _, _, _)
AddRouters(upstream, filteredRouters, i, routers) ==
  IF i > Len(filteredRouters) THEN routers
  ELSE AddRouters(upstream, filteredRouters, i + 1,
                  Put(routers, RouterName(upstream, filteredRouters[i]),
                      NewRouter(upstream, filteredRouters[i])))

\* A variant of aggregateUpstream that stores the service under the bare
\* upstream name.
aggregateUpstreamBareService(cfg, upstream, resp, httpConfig) ==
  LET got == GetRouters(resp) IN
  IF got.err THEN [err |-> TRUE, httpConfig |-> httpConfig]
  ELSE
    LET filteredRouters == FilterRouters(got.routers, cfg.selector.provider, cfg.selector.status) IN
    IF Len(filteredRouters) > 0
    THEN [err |-> FALSE,
          httpConfig |->
            [routers |-> AddRouters(upstream, filteredRouters, 1, httpConfig.routers),
             services |-> Put(httpConfig.services, upstream.name, Service(upstream))]]
    ELSE [err |-> FALSE, httpConfig |-> httpConfig]

\* Aggregator.aggregateUpstream: the error it returns and httpConfig after it.
aggregateUpstream(cfg, upstream, resp, httpConfig) ==
  LET got == GetRouters(resp) IN
  IF got.err THEN [err |-> TRUE, httpConfig |-> httpConfig]
  ELSE
    LET filteredRouters == FilterRouters(got.routers, cfg.selector.provider, cfg.selector.status) IN
    IF Len(filteredRouters) > 0
    THEN [err |-> FALSE,
          httpConfig |->
            [routers |-> AddRouters(upstream, filteredRouters, 1, httpConfig.routers),
             services |-> Put(httpConfig.services, ServiceName(upstream), Service(upstream))]]
    ELSE [err |-> FALSE, httpConfig |-> httpConfig]

RECURSIVE AggregateFromAbort(_, _, _, _)
AggregateFromAbort(cfg, resps, i, httpConfig) ==
  IF i > Len(cfg.upstreams) THEN httpConfig
  ELSE LET r == aggregateUpstream(cfg, cfg.upstreams[i], resps[i], httpConfig) IN
       IF r.err THEN httpConfig ELSE AggregateFromAbort(cfg, resps, i + 1, r.httpConfig)

\* The loop of Aggregate from upstream i on: a failing upstream is logged and
\* the loop continues.
RECURSIVE AggregateFrom(_, _, _, _)
AggregateFrom(cfg, resps, i, httpConfig) ==
  IF i > Len(cfg.upstreams) THEN httpConfig
  ELSE AggregateFrom(cfg, resps, i + 1,
                     aggregateUpstream(cfg, cfg.upstreams[i], resps[i], httpConfig).httpConfig)

\* Aggregator.Aggregate
Aggregate(cfg, resps) ==
  [err |-> FALSE, httpConfig |-> AggregateFrom(cfg, resps, 1, EmptyHTTPConfiguration)]

\* ============================================================ the process
\* Addresses of HTTPConfiguration objects: 0 is the one NewHTTPServer
\* allocates, n the one the n-th call of Aggregate allocates.
NoPtr == -1

\* The configuration the process runs with: both sinks enabled.
SysConfig ==
  Load([upstreams |-> << Upstream(<<"a">>, "http://10.0.0.1:8080", "http://10.0.0.1:80"),
                         Upstream(<<"c">>, "http://10.0.0.3:8080", "http://10.0.0.3:80") >>,
        selector |-> [provider |-> "docker", status |-> ""],
        defaults |-> NoDefaults])

\* What a fetch comes back with while the process runs.
SysResponses ==
  { HTTPResponse(FALSE, 0, FALSE, FALSE, <<>>),
    HTTPResponse(TRUE, 200, TRUE, TRUE,
                 <<RouterInfo(<<"m", "@", "d">>, "docker", "enabled", "Host(m.docker)", <<"web">>, <<>>, NoTLS)>>) }

\* A path of the file system: whether a file is there, its content, and, as
\* history, who put it in that state last.
NoFile == [exists |-> FALSE, data |-> <<>>, by |-> "none"]

\* The YAML document of a configuration, in the order the encoder writes it;
\* of is a history field, the address of the object encoded.
NChunks == 2
Render(ptr, httpConfig) ==
  << [of |-> ptr, section |-> "routers", routers |-> httpConfig.routers, services |-> EmptyMap],
     [of |-> ptr, section |-> "services", routers |-> EmptyMap, services |-> httpConfig.services] >>

Running == pc # "terminated"

\* The exit status of the process: 1 from os.Exit(1), 0 when main returns,
\* none while it runs.
NoStatus == -1
ExitStatus ==
  IF pc = "exit1" THEN 1 ELSE IF pc = "terminated" THEN 0 ELSE NoStatus
InCycle(at) == at \in {"aggregate", "lock", "assign", "unlock", "send"}

\* The objects that stay referenced once a step is taken; the others are
\* garbage.
LiveNext ==
  ({srvConfig', currentConfig', wconfig'}
     \cup { fileConfigChan'[i] : i \in 1..Len(fileConfigChan') }
     \cup { readers'[h].config : h \in Readers }
     \cup (IF InCycle(pc') THEN {cur'} ELSE {})) \ {NoPtr}
Collect(h) == heap' = [p \in (DOMAIN h) \cap LiveNext |-> h[p]]

InitSys ==
  /\ heap = (0 :> EmptyHTTPConfiguration) @@ (1 :> EmptyHTTPConfiguration)
  /\ pc = "aggregate" /\ nextUp = 1 /\ cur = 1 /\ cycles = 1
  /\ tick = FALSE /\ sig = FALSE /\ cancelled = FALSE
  /\ srvState = "starting"
  /\ mu = [w |-> FALSE, r |-> 0, pending |-> FALSE]
  /\ srvConfig = 0 /\ completed = 0
  /\ readers = [h \in Readers |-> [pc |-> "idle", config |-> NoPtr]]
  /\ fileConfigChan = <<>>
  /\ wpc = "start" /\ currentConfig = NoPtr /\ wconfig = NoPtr /\ ftick = FALSE
  /\ final = NoFile /\ tmp = NoFile

\* ------------------------------------------------------------ main's loop
\* One turn of Aggregate's loop: fetch, filter and merge one upstream into
\* the object under construction; after the last upstream runAggregation
\* goes on to UpdateConfig.
AggregateStep ==
  /\ Running /\ pc = "aggregate"
  /\ \E resp \in SysResponses :
       /\ pc' = IF nextUp = Len(config.upstreams) THEN "lock" ELSE "aggregate"
       /\ nextUp' = nextUp + 1
       /\ responses' = Append(responses, resp)
       /\ UNCHANGED <<config, result, cur, cycles, tick, sig, cancelled, srvVars, fileVars>>
       /\ Collect([heap EXCEPT ![cur] =
                     aggregateUpstream(config, config.upstreams[nextUp], resp, heap[cur]).httpConfig])

\* UpdateConfig: s.mu.Lock() announces the writer, which keeps new readers out,
\* and returns once no reader holds the lock.
LockAnnounce ==
  /\ Running /\ pc = "lock" /\ mu.r > 0 /\ ~mu.pending
  /\ mu' = [mu EXCEPT !.pending = TRUE]
  /\ UNCHANGED <<aggVars, heap, schedVars, srvState, srvConfig, completed, readers, fileVars>>

LockAcquire ==
  /\ Running /\ pc = "lock" /\ mu.r = 0 /\ ~mu.w
  /\ mu' = [mu EXCEPT !.w = TRUE, !.pending = FALSE]
  /\ pc' = "assign"
  /\ UNCHANGED <<aggVars, heap, nextUp, cur, cycles, tick, sig, cancelled,
                 srvState, srvConfig, completed, readers, fileVars>>

\* UpdateConfig: s.config = config
Assign ==
  /\ Running /\ pc = "assign"
  /\ srvConfig' = cur
  /\ pc' = "unlock"
  /\ UNCHANGED <<aggVars, nextUp, cur, cycles, tick, sig, cancelled,
                 srvState, mu, completed, readers, fileVars>>
  /\ Collect(heap)

\* A variant of UpdateConfig that returns without releasing the lock.
UnlockForgotten ==
  /\ Running /\ pc = "unlock"
  /\ completed' = cur
  /\ pc' = "send"
  /\ UNCHANGED <<aggVars, heap, nextUp, cur, cycles, tick, sig, cancelled,
                 srvState, mu, srvConfig, readers, fileVars>>

\* UpdateConfig: the deferred s.mu.Unlock()
Unlock ==
  /\ Running /\ pc = "unlock"
  /\ mu' = [mu EXCEPT !.w = FALSE]
  /\ completed' = cur
  /\ pc' = "send"
  /\ UNCHANGED <<aggVars, heap, nextUp, cur, cycles, tick, sig, cancelled,
                 srvState, srvConfig, readers, fileVars>>

\* Variants of the send: one that waits for room in the channel, one that
\* puts the new value in place of the buffered one.
SendBlocking ==
  /\ Running /\ pc = "send" /\ Len(fileConfigChan) < 1
  /\ fileConfigChan' = Append(fileConfigChan, cur)
  /\ pc' = "select"
  /\ UNCHANGED <<aggVars, nextUp, cur, cycles, tick, sig, cancelled, srvVars,
                 wpc, currentConfig, wconfig, ftick, final, tmp>>
  /\ Collect(heap)

SendOverwrite ==
  /\ Running /\ pc = "send"
  /\ fileConfigChan' = <<cur>>
  /\ pc' = "select"
  /\ UNCHANGED <<aggVars, nextUp, cur, cycles, tick, sig, cancelled, srvVars,
                 wpc, currentConfig, wconfig, ftick, final, tmp>>
  /\ Collect(heap)

\* runAggregation: select { case fileConfigChan <- httpConfig: default: }
Send ==
  /\ Running /\ pc = "send"
  /\ fileConfigChan' = IF Len(fileConfigChan) < 1 THEN Append(fileConfigChan, cur)
                       ELSE fileConfigChan
  /\ pc' = "select"
  /\ UNCHANGED <<aggVars, nextUp, cur, cycles, tick, sig, cancelled, srvVars,
                 wpc, currentConfig, wconfig, ftick, final, tmp>>
  /\ Collect(heap)

\* main's select: case <-ctx.Done()
SelectDone ==
  /\ pc = "select" /\ cancelled
  /\ pc' = "terminated"
  /\ UNCHANGED <<aggVars, heap, nextUp, cur, cycles, tick, sig, cancelled, srvVars, fileVars>>

\* A variant in which the signal ends main wherever it stands.
SelectSignalPreempts ==
  /\ Running /\ sig
  /\ sig' = FALSE
  /\ pc' = "terminated"
  /\ UNCHANGED <<aggVars, heap, nextUp, cur, cycles, tick, cancelled, srvVars, fileVars>>

\* main's select: case <-sigChan
SelectSignal ==
  /\ pc = "select" /\ sig
  /\ sig' = FALSE
  /\ pc' = "terminated"
  /\ UNCHANGED <<aggVars, heap, nextUp, cur, cycles, tick, cancelled, srvVars, fileVars>>

\* Variants of the tick case: one that a tick can take in the middle of a
\* cycle, one that leaves the tick in the channel.
SelectTickAnytime ==
  /\ Running /\ tick /\ cycles < MaxCycles
  /\ tick' = FALSE
  /\ cycles' = cycles + 1
  /\ cur' = cycles + 1
  /\ nextUp' = 1
  /\ pc' = "aggregate"
  /\ responses' = <<>>
  /\ UNCHANGED <<config, result, sig, cancelled, srvVars, fileVars>>
  /\ Collect(heap @@ ((cycles + 1) :> EmptyHTTPConfiguration))

SelectTickKeepsTick ==
  /\ pc = "select" /\ tick /\ cycles < MaxCycles
  /\ cycles' = cycles + 1
  /\ cur' = cycles + 1
  /\ nextUp' = 1
  /\ pc' = "aggregate"
  /\ responses' = <<>>
  /\ UNCHANGED <<config, result, tick, sig, cancelled, srvVars, fileVars>>
  /\ Collect(heap @@ ((cycles + 1) :> EmptyHTTPConfiguration))

\* A variant in which the new cycle starts from the previous snapshot's
\* entries.
SelectTickPatch ==
  /\ pc = "select" /\ tick /\ cycles < MaxCycles
  /\ tick' = FALSE
  /\ cycles' = cycles + 1
  /\ cur' = cycles + 1
  /\ nextUp' = 1
  /\ pc' = "aggregate"
  /\ responses' = <<>>
  /\ UNCHANGED <<config, result, sig, cancelled, srvVars, fileVars>>
  /\ Collect(heap @@ ((cycles + 1) :> heap[cur]))

\* main's select: case <-ticker.C, and Aggregate allocating its httpConfig
SelectTick ==
  /\ pc = "select" /\ tick /\ cycles < MaxCycles
  /\ tick' = FALSE
  /\ cycles' = cycles + 1
  /\ cur' = cycles + 1
  /\ nextUp' = 1
  /\ pc' = "aggregate"
  /\ responses' = <<>>
  /\ UNCHANGED <<config, result, sig, cancelled, srvVars, fileVars>>
  /\ Collect(heap @@ ((cycles + 1) :> EmptyHTTPConfiguration))

\* The poll ticker fires; its channel holds one tick at most.
Tick ==
  /\ Running /\ ~tick /\ cycles < MaxCycles
  /\ tick' = TRUE
  /\ UNCHANGED <<aggVars, heap, pc, nextUp, cur, cycles, sig, cancelled, srvVars, fileVars>>

\* SIGINT or SIGTERM is delivered; sigChan holds one signal at most.
Signal ==
  /\ Running /\ ~sig
  /\ sig' = TRUE
  /\ UNCHANGED <<aggVars, heap, pc, nextUp, cur, cycles, tick, cancelled, srvVars, fileVars>>

\* ------------------------------------------------------------- query sink
\* HTTPServer.Start: ListenAndServe binds and serves.
Listen ==
  /\ Running /\ srvState = "starting"
  /\ srvState' = "serving"
  /\ UNCHANGED <<aggVars, heap, schedVars, mu, srvConfig, completed, readers, fileVars>>

\* HTTPServer.Start: ListenAndServe returns an error; main's goroutine logs it
\* and cancels ctx.
ListenFails ==
  /\ Running /\ srvState = "starting"
  /\ srvState' = "failed"
  /\ cancelled' = TRUE
  /\ UNCHANGED <<aggVars, heap, pc, nextUp, cur, cycles, tick, sig,
                 mu, srvConfig, completed, readers, fileVars>>

\* A variant of the read lock that does not wait for the writer.
RLockNoExclusion(h) ==
  /\ Running /\ srvState = "serving" /\ readers[h].pc = "idle"
  /\ mu' = [mu EXCEPT !.r = @ + 1]
  /\ readers' = [readers EXCEPT ![h].pc = "rlocked"]
  /\ UNCHANGED <<aggVars, heap, schedVars, srvState, srvConfig, completed, fileVars>>

\* handleConfig: s.mu.RLock()
RLock(h) ==
  /\ Running /\ srvState = "serving" /\ readers[h].pc = "idle"
  /\ ~mu.w /\ ~mu.pending
  /\ mu' = [mu EXCEPT !.r = @ + 1]
  /\ readers' = [readers EXCEPT ![h].pc = "rlocked"]
  /\ UNCHANGED <<aggVars, heap, schedVars, srvState, srvConfig, completed, fileVars>>

\* handleConfig: config := s.config
Read(h) ==
  /\ Running /\ readers[h].pc = "rlocked"
  /\ readers' = [readers EXCEPT ![h] = [pc |-> "read", config |-> srvConfig]]
  /\ UNCHANGED <<aggVars, heap, schedVars, srvState, mu, srvConfig, completed, fileVars>>

\* handleConfig: s.mu.RUnlock()
RUnlock(h) ==
  /\ Running /\ readers[h].pc = "read"
  /\ mu' = [mu EXCEPT !.r = @ - 1]
  /\ readers' = [readers EXCEPT ![h].pc = "serve"]
  /\ UNCHANGED <<aggVars, heap, schedVars, srvState, srvConfig, completed, fileVars>>

\* handleConfig: serveJSON / serveYAML encode the object read, and the
\* handler returns.
Serve(h) ==
  /\ Running /\ readers[h].pc = "serve"
  /\ readers' = [readers EXCEPT ![h] = [pc |-> "idle", config |-> NoPtr]]
  /\ UNCHANGED <<aggVars, schedVars, srvState, mu, srvConfig, completed, fileVars>>
  /\ Collect(heap)

\* -------------------------------------------------------------- file sink
Writing(at) == at \in {"create", "encode", "close", "rename"}

\* A variant of the receive that writes the configuration received but keeps
\* the one it remembered first for the timer's rewrites.
ReceiveKeepsCurrent ==
  /\ Running /\ wpc \in {"start", "loop"} /\ Len(fileConfigChan) > 0
  /\ currentConfig' = IF currentConfig = NoPtr THEN Head(fileConfigChan) ELSE currentConfig
  /\ wconfig' = Head(fileConfigChan)
  /\ fileConfigChan' = Tail(fileConfigChan)
  /\ wpc' = "create"
  /\ UNCHANGED <<aggVars, schedVars, srvVars, ftick, final, tmp>>
  /\ Collect(heap)

\* FileWriter.Start: case config := <-configChan, in the initial select and
\* in the loop: currentConfig = config, then writeConfig(config).
Receive ==
  /\ Running /\ wpc \in {"start", "loop"} /\ Len(fileConfigChan) > 0
  /\ currentConfig' = Head(fileConfigChan)
  /\ wconfig' = Head(fileConfigChan)
  /\ fileConfigChan' = Tail(fileConfigChan)
  /\ wpc' = "create"
  /\ UNCHANGED <<aggVars, schedVars, srvVars, ftick, final, tmp>>
  /\ Collect(heap)

\* FileWriter.Start: case <-time.After(1 * time.Second), no initial config.
StartTimeout ==
  /\ Running /\ wpc = "start"
  /\ wpc' = "loop"
  /\ UNCHANGED <<aggVars, heap, schedVars, srvVars, fileConfigChan, currentConfig,
                 wconfig, ftick, final, tmp>>

\* A variant of the ticker case that takes the tick and writes nothing.
TimerWriteIdle ==
  /\ Running /\ wpc = "loop" /\ ftick
  /\ ftick' = FALSE
  /\ UNCHANGED <<aggVars, heap, schedVars, srvVars, fileConfigChan, wpc, currentConfig,
                 wconfig, final, tmp>>

\* FileWriter.Start: case <-ticker.C, writeConfig(currentConfig) when there
\* is one.
TimerWrite ==
  /\ Running /\ wpc = "loop" /\ ftick
  /\ ftick' = FALSE
  /\ IF currentConfig # NoPtr
     THEN wconfig' = currentConfig /\ wpc' = "create"
     ELSE UNCHANGED <<wconfig, wpc>>
  /\ UNCHANGED <<aggVars, heap, schedVars, srvVars, fileConfigChan, currentConfig, final, tmp>>

\* The file writer's ticker fires; its channel holds one tick at most.
FileTick ==
  /\ Running /\ ~ftick
  /\ ftick' = TRUE
  /\ UNCHANGED <<aggVars, heap, schedVars, srvVars, fileConfigChan, wpc, currentConfig,
                 wconfig, final, tmp>>

\* A variant of the create that opens the output path itself.
CreateInPlace ==
  /\ Running /\ wpc = "create"
  /\ final' = [exists |-> TRUE, data |-> <<>>, by |-> "writer"]
  /\ wpc' = "encode"
  /\ UNCHANGED <<aggVars, heap, schedVars, srvVars, fileConfigChan, currentConfig,
                 wconfig, ftick, tmp>>

\* writeConfig: os.MkdirAll(dir, 0755), then os.Create(tmpPath) creates or
\* truncates the temporary file.
Create ==
  /\ Running /\ wpc = "create"
  /\ tmp' = [exists |-> TRUE, data |-> <<>>, by |-> "writer"]
  /\ wpc' = "encode"
  /\ UNCHANGED <<aggVars, heap, schedVars, srvVars, fileConfigChan, currentConfig,
                 wconfig, ftick, final>>

\* writeConfig: encoder.Encode(output) writes the document to the temporary
\* file, a part at a time.
Encode ==
  /\ Running /\ wpc = "encode"
  /\ tmp' = [tmp EXCEPT !.data = Append(@, Render(wconfig, heap[wconfig])[Len(@) + 1])]
  /\ wpc' = IF Len(tmp.data) + 1 = NChunks THEN "close" ELSE "encode"
  /\ UNCHANGED <<aggVars, heap, schedVars, srvVars, fileConfigChan, currentConfig,
                 wconfig, ftick, final>>

\* writeConfig: encoder.Close(), then f.Close()
Close ==
  /\ Running /\ wpc = "close"
  /\ wpc' = "rename"
  /\ UNCHANGED <<aggVars, heap, schedVars, srvVars, fileConfigChan, currentConfig,
                 wconfig, ftick, final, tmp>>

\* writeConfig: os.Rename(tmpPath, w.path), and the return to Start's loop.
Rename ==
  /\ Running /\ wpc = "rename"
  /\ final' = tmp
  /\ tmp' = NoFile
  /\ wconfig' = NoPtr
  /\ wpc' = "loop"
  /\ UNCHANGED <<aggVars, schedVars, srvVars, fileConfigChan, currentConfig, ftick>>
  /\ Collect(heap)

\* A variant in which writeConfig's error ends Start, and with it, through
\* main's goroutine, the process.
WriteFailsStops ==
  /\ Running /\ Writing(wpc)
  /\ wconfig' = NoPtr
  /\ wpc' = "returned"
  /\ cancelled' = TRUE
  /\ UNCHANGED <<aggVars, pc, nextUp, cur, cycles, tick, sig, srvVars,
                 fileConfigChan, currentConfig, ftick, final, tmp>>
  /\ Collect(heap)

\* writeConfig: any of its calls fails; it returns the error, which Start
\* logs before it goes back to its loop.
WriteFails ==
  /\ Running /\ Writing(wpc)
  /\ wconfig' = NoPtr
  /\ wpc' = "loop"
  /\ UNCHANGED <<aggVars, schedVars, srvVars, fileConfigChan, currentConfig, ftick, final, tmp>>
  /\ Collect(heap)

\* Something outside the process deletes the output file, or truncates it.
OutsideRemove ==
  /\ Running /\ final.exists
  /\ final' = [exists |-> FALSE, data |-> <<>>, by |-> "outside"]
  /\ UNCHANGED <<aggVars, heap, schedVars, srvVars, fileConfigChan, wpc, currentConfig,
                 wconfig, ftick, tmp>>

OutsideTruncate ==
  /\ Running /\ final.exists /\ final.data # <<>>
  /\ final' = [exists |-> TRUE, data |-> <<>>, by |-> "outside"]
  /\ UNCHANGED <<aggVars, heap, schedVars, srvVars, fileConfigChan, wpc, currentConfig,
                 wconfig, ftick, tmp>>

Scheduler ==
  \/ AggregateStep \/ LockAnnounce \/ LockAcquire \/ Assign \/ Unlock \/ Send
  \/ SelectDone \/ SelectSignal \/ SelectTick \/ Tick \/ Signal
QuerySink ==
  \/ Listen \/ ListenFails
  \/ \E h \in Readers : RLock(h) \/ Read(h) \/ RUnlock(h) \/ Serve(h)
FileSink ==
  \/ Receive \/ StartTimeout \/ TimerWrite \/ FileTick
  \/ Create \/ Encode \/ Close \/ Rename \/ WriteFails

Init ==
  /\ config = SysConfig /\ responses = <<>>
  /\ result = [done |-> FALSE, err |-> FALSE, httpConfig |-> EmptyHTTPConfiguration]
  /\ InitSys

Next == Scheduler \/ QuerySink \/ FileSink

Spec == Init /\ [][Next]_vars

\* The process with no client of the query interface and with the output
\* file within reach of other programs.
NextFile ==
  \/ AggregateStep \/ LockAcquire \/ Assign \/ Unlock \/ Send
  \/ SelectDone \/ SelectSignal \/ SelectTick \/ Tick \/ Signal
  \/ Listen \/ ListenFails
  \/ FileSink
  \/ OutsideRemove \/ OutsideTruncate

SpecFile == Init /\ [][NextFile]_vars

\* What the Go runtime guarantees of main's goroutine and of the handlers:
\* a goroutine that can run does run; a fetch returns (the client has a
\* timeout); Lock returns once the readers that hold the lock have released
\* it, and a handler goes from RLock to RUnlock without waiting; a select
\* whose signal case is ready again and again takes it in the end, as it
\* chooses among its ready cases at random.
Fairness ==
  /\ WF_vars(AggregateStep)
  /\ WF_vars(LockAnnounce \/ LockAcquire)
  /\ WF_vars(Assign) /\ WF_vars(Unlock) /\ WF_vars(Send)
  /\ SF_vars(SelectSignal) /\ WF_vars(SelectDone)
  /\ \A h \in Readers : WF_vars(Read(h)) /\ WF_vars(RUnlock(h))

FairSpec == Init /\ [][Next]_vars /\ Fairness

\* ------------------------------------------------------- main's start-up
NoError == "nil"

\* The first error of the loop of Validate over the upstreams from i on.
RECURSIVE ValidateUpstreams(_, _)
ValidateUpstreams(upstreams, i) ==
  IF i > Len(upstreams) THEN NoError
  ELSE IF upstreams[i].name = <<>> THEN "name is required"
  ELSE IF upstreams[i].adminURL = "" THEN "admin_url is required"
  ELSE IF upstreams[i].serverURL = "" THEN "server_url is required"
  ELSE ValidateUpstreams(upstreams, i + 1)

\* A variant of Validate that lets port 0 through.
ValidateNegativePort(c) ==
  IF Len(c.upstreams) = 0 THEN "at least one upstream must be configured"
  ELSE IF ValidateUpstreams(c.upstreams, 1) # NoError THEN ValidateUpstreams(c.upstreams, 1)
  ELSE IF ~c.output.http.enabled /\ ~c.output.file.enabled
    THEN "at least one output method (HTTP or File) must be enabled"
  ELSE IF c.output.http.enabled /\ c.output.http.port < 0
    THEN "HTTP output port must be specified"
  ELSE IF c.output.file.enabled /\ c.output.file.path = ""
    THEN "file output path must be specified"
  ELSE NoError

\* Config.Validate: the error it returns, NoError for nil.
Validate(c) ==
  IF Len(c.upstreams) = 0 THEN "at least one upstream must be configured"
  ELSE IF ValidateUpstreams(c.upstreams, 1) # NoError THEN ValidateUpstreams(c.upstreams, 1)
  ELSE IF ~c.output.http.enabled /\ ~c.output.file.enabled
    THEN "at least one output method (HTTP or File) must be enabled"
  ELSE IF c.output.http.enabled /\ c.output.http.port <= 0
    THEN "HTTP output port must be specified"
  ELSE IF c.output.file.enabled /\ c.output.file.path = ""
    THEN "file output path must be specified"
  ELSE NoError

\* aggregator.New: the table of clients, one entry per upstream name; an
\* entry is the API URL of its client, the admin URL followed by /api, and
\* a later upstream of the same name replaces the entry of an earlier one.
RECURSIVE NewClients(_, _, _)
NewClients(upstreams, i, clients) ==
  IF i > Len(upstreams) THEN clients
  ELSE NewClients(upstreams, i + 1,
                  Put(clients, upstreams[i].name, <<upstreams[i].adminURL, "/api">>))
New(cfg) == [config |-> cfg, clients |-> NewClients(cfg.upstreams, 1, EmptyMap)]

\* The configuration files main may be started with; parses is whether the
\* file can be read and is YAML for a Config.
StartUpstreamLists ==
  LET a == Upstream(<<"a">>, "http://10.0.0.1:8080", "http://10.0.0.1:80")
      a2 == Upstream(<<"a">>, "http://10.0.0.4:8080", "http://10.0.0.4:80")
      c == Upstream(<<"c">>, "http://10.0.0.3:8080", "http://10.0.0.3:80")
  IN { <<>>, <<a>>, <<a, c>>, <<a, a2>>,
       <<Upstream(<<>>, "http://10.0.0.5:8080", "http://10.0.0.5:80")>>,
       <<a, Upstream(<<"c">>, "", "http://10.0.0.3:80")>>,
       <<Upstream(<<"c">>, "http://10.0.0.3:8080", ""), a>> }
Ports == {-1, 0, 8080}
Paths == {"", "/out/dynamic.yml"}
ConfigFiles ==
  { [parses |-> ok, upstreams |-> ups,
     selector |-> [provider |-> "docker", status |-> ""], defaults |-> NoDefaults,
     output |-> [http |-> [enabled |-> he, port |-> port],
                 file |-> [enabled |-> fe, path |-> path]]] :
      ok \in BOOLEAN, ups \in StartUpstreamLists, he \in BOOLEAN, port \in Ports,
      fe \in BOOLEAN, path \in Paths }

\* Before main has run: nothing is allocated, no sink exists, no aggregation
\* has started.
InitStart ==
  /\ config \in ConfigFiles /\ responses = <<>>
  /\ result = [done |-> FALSE, err |-> FALSE, httpConfig |-> EmptyHTTPConfiguration]
  /\ heap = EmptyMap
  /\ pc = "start" /\ nextUp = 1 /\ cur = NoPtr /\ cycles = 0
  /\ tick = FALSE /\ sig = FALSE /\ cancelled = FALSE
  /\ srvState = "off"
  /\ mu = [w |-> FALSE, r |-> 0, pending |-> FALSE]
  /\ srvConfig = NoPtr /\ completed = NoPtr
  /\ readers = [h \in Readers |-> [pc |-> "idle", config |-> NoPtr]]
  /\ fileConfigChan = <<>>
  /\ wpc = "off" /\ currentConfig = NoPtr /\ wconfig = NoPtr /\ ftick = FALSE
  /\ final = NoFile /\ tmp = NoFile

\* main: Load or Validate returns an error; main logs it and calls
\* os.Exit(1).
StartFails ==
  /\ pc = "start"
  /\ ~config.parses \/ Validate(Load(config)) # NoError
  /\ pc' = "exit1"
  /\ UNCHANGED <<aggVars, heap, nextUp, cur, cycles, tick, sig, cancelled, srvVars, fileVars>>

\* main: the configuration is accepted; main creates the aggregator, starts
\* the sinks that are enabled and the ticker, and enters its first
\* runAggregation.
StartUp ==
  /\ pc = "start"
  /\ config.parses /\ Validate(Load(config)) = NoError
  /\ config' = Load(config)
  /\ pc' = "aggregate" /\ cur' = 1 /\ cycles' = 1
  /\ IF config.output.http.enabled
     THEN /\ srvState' = "starting" /\ srvConfig' = 0 /\ completed' = 0
          /\ heap' = (0 :> EmptyHTTPConfiguration) @@ (1 :> EmptyHTTPConfiguration)
     ELSE /\ UNCHANGED <<srvState, srvConfig, completed>>
          /\ heap' = (1 :> EmptyHTTPConfiguration)
  /\ wpc' = IF config.output.file.enabled THEN "start" ELSE "off"
  /\ UNCHANGED <<responses, result, nextUp, tick, sig, cancelled, mu, readers,
                 fileConfigChan, currentConfig, wconfig, ftick, final, tmp>>

NextStart == StartFails \/ StartUp

SpecStart == InitStart /\ [][NextStart]_vars

\* ------------------------------------------------ the aggregation, as a run
CycleResponses == [n \in 1..MaxUpstreams |-> ResponseSeqs(n, MaxRouters)]
NoResult == [done |-> FALSE, err |-> FALSE, httpConfig |-> EmptyHTTPConfiguration]

UpstreamLists == { s \in SeqsUpTo(UpstreamPool, MaxUpstreams) : Len(s) >= 1 }

InitAgg ==
  /\ \E ups \in UpstreamLists, p \in Providers, s \in RawStatuses :
       /\ config = Load([upstreams |-> ups, selector |-> [provider |-> p, status |-> s],
                         defaults |-> NoDefaults])
       /\ responses \in CycleResponses[Len(ups)]
  /\ result = NoResult
  /\ InitSys

\* The same run for configurations with a routers.defaults section and with
\* upstreams that share a name.
SameNameLists == { s \in SeqsUpTo(SameNamePool, MaxUpstreams) : Len(s) >= 1 }

InitMerge ==
  /\ \E ups \in SameNameLists, p \in Providers, s \in RawStatuses, d \in DefaultsPool :
       /\ config = Load([upstreams |-> ups, selector |-> [provider |-> p, status |-> s],
                         defaults |-> d])
       /\ responses \in CycleResponses[Len(ups)]
  /\ result = NoResult
  /\ InitSys

RunAggregate ==
  /\ ~result.done
  /\ LET r == Aggregate(config, responses) IN
       result' = [done |-> TRUE, err |-> r.err, httpConfig |-> r.httpConfig]
  /\ UNCHANGED <<config, responses, sysVars>>

NextAgg == RunAggregate

SpecAgg == InitAgg /\ [][NextAgg]_vars

SpecMerge == InitMerge /\ [][NextAgg]_vars

\* =================================================================== claims
\* Vocabulary of the claims, stated on the inputs and not through the model
\* of the code.
UpIdx == 1..Len(config.upstreams)
FetchFails(resp) == ~resp.transportOK \/ resp.statusCode # 200 \/ ~resp.decodes
Fetched(i) == ~FetchFails(responses[i])
Selected(i) ==
  FilterRouters(responses[i].routers, config.selector.provider, config.selector.status)
Published == result.httpConfig.routers
TraefikSuffix == <<"-", "t", "r", "a", "e", "f", "i", "k">>

\* R with everything from its first "@" onward removed.
Stem(name) ==
  CHOOSE b \in { SubSeq(name, 1, n) : n \in 0..Len(name) } :
    /\ \A i \in 1..Len(b) : b[i] # "@"
    /\ Len(b) = Len(name) \/ name[Len(b) + 1] = "@"
ClaimKey(u, r) == u.name \o <<"-">> \o Stem(r.name)

RECURSIVE KeepAt(_, _, _)
KeepAt(s, keep, i) ==
  IF i > Len(s) THEN <<>>
  ELSE (IF keep[i] THEN <<s[i]>> ELSE <<>>) \o KeepAt(s, keep, i + 1)

RECURSIVE TotalSelectedFrom(_)
TotalSelectedFrom(i) ==
  IF i > Len(config.upstreams) THEN 0
  ELSE (IF Fetched(i) THEN Len(Selected(i)) ELSE 0) + TotalSelectedFrom(i + 1)
TotalSelected == TotalSelectedFrom(1)

IsPrefix(p, s) == Len(p) <= Len(s) /\ SubSeq(s, 1, Len(p)) = p

\* ----------------------------------------------------------------------- C1
\* C1: whatever subset of the upstreams fails to be fetched in a cycle,
\* Aggregate returns no error and its output is the output of aggregating
\* only the upstreams that were fetched; every published router comes from a
\* fetched upstream's list.
C1_FailureIsolation ==
  result.done =>
    LET ok == [i \in UpIdx |-> Fetched(i)] IN
    /\ ~result.err
    /\ result.httpConfig =
         Aggregate([config EXCEPT !.upstreams = KeepAt(config.upstreams, ok, 1)],
                   KeepAt(responses, ok, 1)).httpConfig
    /\ \A k \in DOMAIN Published :
         \E i \in UpIdx :
           /\ Fetched(i)
           /\ Published[k].from.upstream = config.upstreams[i]
           /\ \E x \in 1..Len(responses[i].routers) :
                Published[k].from.router = responses[i].routers[x]
    /\ \A i \in UpIdx :
         (\A j \in UpIdx : config.upstreams[j].name = config.upstreams[i].name => ~Fetched(j))
           => (config.upstreams[i].name \o TraefikSuffix) \notin DOMAIN result.httpConfig.services

\* A cycle in which one upstream fails before another one is fetched and
\* publishes a router.
C1_Witness ==
  /\ result.done
  /\ \E i, j \in UpIdx : i < j /\ ~Fetched(i) /\ Fetched(j) /\ Len(Selected(j)) > 0
  /\ Published # EmptyMap

\* ----------------------------------------------------------------------- C6
DistinctUpstreamNames ==
  \A i, j \in UpIdx : config.upstreams[i].name = config.upstreams[j].name => i = j
DistinctRemoteNames ==
  \A i \in UpIdx : \A x, y \in 1..Len(responses[i].routers) :
    responses[i].routers[x].name = responses[i].routers[y].name => x = y
DistinctStems ==
  \A i \in UpIdx : \A x, y \in 1..Len(responses[i].routers) :
    Stem(responses[i].routers[x].name) = Stem(responses[i].routers[y].name) => x = y
NoDashPrefix ==
  \A i, j \in UpIdx :
    i # j => ~IsPrefix(config.upstreams[i].name \o <<"-">>, config.upstreams[j].name)

\* C6 as stated: with pairwise distinct upstream names and pairwise distinct
\* remote names in every router list, the output holds as many routers as
\* were selected from the fetched upstreams.
C6_Original ==
  (result.done /\ DistinctUpstreamNames /\ DistinctRemoteNames)
    => Cardinality(DOMAIN Published) = TotalSelected

\* C6 (amended): the same, when moreover the remote names of every list stay
\* pairwise distinct once their "@" suffix is removed and no upstream name
\* followed by "-" is a prefix of another upstream name.
C6_UniqueKeys ==
  (result.done /\ DistinctUpstreamNames /\ DistinctRemoteNames /\ DistinctStems /\ NoDashPrefix)
    => Cardinality(DOMAIN Published) = TotalSelected

\* Two upstreams each publish a router, under the amended preconditions.
C6_Witness ==
  /\ result.done /\ DistinctUpstreamNames /\ DistinctRemoteNames /\ DistinctStems /\ NoDashPrefix
  /\ \E i, j \in UpIdx : i # j /\ Fetched(i) /\ Fetched(j)
                         /\ Len(Selected(i)) > 0 /\ Len(Selected(j)) > 0
  /\ Cardinality(DOMAIN Published) = 2

\* ----------------------------------------------------------------------- C7
PublishedAs(i, x) ==
  LET u == config.upstreams[i]
      r == Selected(i)[x]
      k == ClaimKey(u, r)
  IN /\ k \in DOMAIN Published
     /\ Published[k].rule = r.rule
     /\ Published[k].service = u.name \o TraefikSuffix

\* A selected router processed after (i, x) maps to the same key.
Overwritten(i, x) ==
  \E j \in UpIdx :
    /\ Fetched(j)
    /\ \E y \in 1..Len(Selected(j)) :
         /\ j > i \/ (j = i /\ y > x)
         /\ ClaimKey(config.upstreams[j], Selected(j)[y])
              = ClaimKey(config.upstreams[i], Selected(i)[x])

\* C7 as stated: every selected router R of a fetched upstream U is published
\* under U + "-" + (R up to its first "@"), with its own rule and the service
\* U + "-traefik".
C7_Original ==
  result.done =>
    \A i \in UpIdx : Fetched(i) => \A x \in 1..Len(Selected(i)) : PublishedAs(i, x)

\* C7 (amended): the same for every selected router that no selected router
\* processed later maps to the same key.
C7_Naming ==
  result.done =>
    \A i \in UpIdx : Fetched(i) =>
      \A x \in 1..Len(Selected(i)) : ~Overwritten(i, x) => PublishedAs(i, x)

\* A router whose name carries two "@" is published under its key, which a
\* router selected before it maps to as well.
C7_Witness ==
  /\ result.done
  /\ \E i \in UpIdx : Fetched(i) /\ \E x \in 1..Len(Selected(i)) :
       LET n == Selected(i)[x].name IN
       /\ Cardinality({ p \in 1..Len(n) : n[p] = "@" }) = 2
       /\ ~Overwritten(i, x) /\ PublishedAs(i, x)
       /\ \E j \in UpIdx : Fetched(j) /\ \E y \in 1..Len(Selected(j)) : Overwritten(j, y)

\* ----------------------------------------------------------------------- C8
\* C8: whatever the criteria (the configured provider, empty or not, with the
\* configured status or none), FilterRouters returns no router of provider
\* "internal", and no published router was derived from one.
C8_NoInternal ==
  /\ \A i \in UpIdx : \A s \in {"", config.selector.status} :
       LET f == FilterRouters(responses[i].routers, config.selector.provider, s) IN
       \A x \in 1..Len(f) : f[x].provider # "internal"
  /\ result.done => \A k \in DOMAIN Published : Published[k].from.router.provider # "internal"

\* An internal router that passes the provider and status checks is fetched
\* next to a router that is published.
C8_Witness ==
  /\ result.done
  /\ Published # EmptyMap
  /\ \E i \in UpIdx : Fetched(i) /\ \E x \in 1..Len(responses[i].routers) :
       LET r == responses[i].routers[x] IN
       /\ r.provider = "internal"
       /\ config.selector.provider \in {"", "internal"}
       /\ r.status = config.selector.status

\* ----------------------------------------------------------------------- C9
\* C9: with a non-empty criteria.provider every published router was derived
\* from a remote router of that provider; with an empty one, every fetched
\* router that is not internal and has the selected status is selected.
C9_ProviderFilter ==
  result.done =>
    /\ config.selector.provider # "" =>
         \A k \in DOMAIN Published :
           Published[k].from.router.provider = config.selector.provider
    /\ config.selector.provider = "" =>
         \A i \in UpIdx : \A x \in 1..Len(responses[i].routers) :
           LET r == responses[i].routers[x] IN
           (r.provider # "internal" /\ r.status = config.selector.status)
             => \E y \in 1..Len(Selected(i)) : Selected(i)[y] = r

\* With provider "docker" selected, an upstream reports a docker router, which
\* is published, and a file router of the selected status, which is not.
C9_Witness ==
  /\ result.done
  /\ config.selector.provider = "docker"
  /\ Published # EmptyMap
  /\ \E i \in UpIdx : Fetched(i) /\ \E x \in 1..Len(responses[i].routers) :
       /\ responses[i].routers[x].provider = "file"
       /\ responses[i].routers[x].status = config.selector.status

\* ---------------------------------------------------------------------- C10
\* C10: with the status the program passes to the filter (the configured one,
\* "enabled" when none is configured), the filter returns no router of
\* another status, and no published router was derived from one.
C10_StatusFilter ==
  /\ \A i \in UpIdx : \A x \in 1..Len(Selected(i)) :
       Selected(i)[x].status = config.selector.status
  /\ result.done =>
       \A k \in DOMAIN Published : Published[k].from.router.status = config.selector.status

\* An upstream reports a docker router of another status than the selected
\* one next to a router that is published.
C10_Witness ==
  /\ result.done
  /\ Published # EmptyMap
  /\ \E i \in UpIdx : Fetched(i) /\ \E x \in 1..Len(responses[i].routers) :
       LET r == responses[i].routers[x] IN
       /\ r.provider = "docker"
       /\ config.selector.provider \in {"", "docker"}
       /\ r.status # config.selector.status

\* ------------------------------------------------------------ C11, C12, C13
\* C11, as stated: for every configured upstream U, the service U-traefik is
\* in the output exactly when an upstream of that name was fetched and has a
\* selected router, and it then has one target, U's server URL.
C11_Original ==
  result.done =>
    \A i \in UpIdx :
      LET U == config.upstreams[i]
          services == result.httpConfig.services
      IN /\ (U.name \o TraefikSuffix) \in DOMAIN services <=>
              \E j \in UpIdx : /\ config.upstreams[j].name = U.name
                               /\ Fetched(j) /\ Len(Selected(j)) > 0
         /\ (U.name \o TraefikSuffix) \in DOMAIN services =>
              services[U.name \o TraefikSuffix].servers = <<U.serverURL>>

\* C12, as stated: every published router has the entry points of the
\* routers.defaults section, none when the section has none, and likewise
\* its middlewares; never what the remote router declares.
C12_Original ==
  result.done =>
    \A k \in DOMAIN Published :
      /\ Published[k].entryPoints = config.defaults.entryPoints
      /\ Published[k].middlewares = config.defaults.middlewares

\* C13, as stated: every published router has the TLS configuration of the
\* routers.defaults section when there is one, else the remote router's own
\* when it has one, else none.
C13_Original ==
  result.done =>
    \A k \in DOMAIN Published :
      Published[k].tls = IF config.defaults.tls # NoTLS THEN config.defaults.tls
                         ELSE Published[k].from.router.tls

\* ------------------------------------------------------------ C2, C3, C4, C5
\* The snapshot an aggregation is still building, if there is one.
Building == IF pc = "aggregate" THEN {cur} ELSE {}

\* C2: under every interleaving of UpdateConfig and handleConfig, the object a
\* handler reads is the one passed to the UpdateConfig that completed last, or
\* the empty configuration NewHTTPServer stored when none has completed; and
\* the object a handler holds, while it reads and while it encodes, is never
\* the one an aggregation in progress is filling, which is the only object
\* that changes.
C2_WholeSnapshot ==
  \A h \in Readers :
    /\ readers[h].pc = "read" =>
         /\ readers[h].config = completed
         /\ completed = 0 => heap[readers[h].config] = EmptyHTTPConfiguration
    /\ readers[h].pc \in {"read", "serve"} =>
         /\ readers[h].config \in DOMAIN heap
         /\ readers[h].config \notin Building

\* A handler holds the first snapshot while the second is half built.
C2_Witness ==
  \E h \in Readers :
    /\ readers[h].pc = "read" /\ readers[h].config = 1
    /\ pc = "aggregate" /\ cur = 2 /\ nextUp = 2
    /\ heap[1] # EmptyHTTPConfiguration

\* The snapshot delivered last: the one of the last cycle that went through
\* its send.
Delivered == IF InCycle(pc) THEN cur - 1 ELSE cur

C4_SendNeverBlocks == pc = "send" => ENABLED (Send /\ pc' = "select")

\* main stands at the send of its second cycle with the slot still full,
\* the writer not having taken the first snapshot yet.
C4_Witness ==
  /\ pc = "send" /\ cur = 2
  /\ fileConfigChan = <<1>> /\ wpc = "start"

\* A file that holds the whole document of one configuration.
Complete(file) ==
  /\ Len(file.data) = NChunks
  /\ file.data = Render(file.data[1].of,
                        [routers |-> file.data[1].routers, services |-> file.data[NChunks].services])

\* C5: the output path is absent or holds the whole document of one
\* configuration, and it changes only by the rename, which puts there the
\* document of the configuration writeConfig was called with.
C5_AtomicWrite ==
  /\ [](final.exists => Complete(final))
  /\ [][final' # final =>
          /\ wpc = "rename" /\ wpc' = "loop"
          /\ final' = [exists |-> TRUE, data |-> Render(wconfig, heap[wconfig]),
                        by |-> "writer"] ]_vars

\* A write that failed half way left its part at the temporary path, while
\* the output path holds the whole document of an earlier snapshot.
C5_Witness ==
  /\ final.exists /\ Complete(final)
  /\ tmp.exists /\ Len(tmp.data) = 1 /\ tmp.data[1].of # final.data[1].of
  /\ wpc = "loop"

\* ---------------------------------------------------------------------- C14
\* The objects the sinks and the handlers hold.
Handed ==
  ({srvConfig, currentConfig, wconfig}
     \cup { fileConfigChan[i] : i \in 1..Len(fileConfigChan) }
     \cup { readers[h].config : h \in Readers }) \ {NoPtr}

\* C14: once a cycle's aggregation is over, its snapshot is what Aggregate
\* makes of that cycle's answers alone, so an upstream that failed or had no
\* selected router in the cycle has no router and no service in it; from the
\* cycle's send on it is what the query interface holds; and no step changes
\* an object that a sink or a handler holds.
C14_FromScratch ==
  /\ [](pc # "aggregate" =>
          /\ heap[cur] = Aggregate(config, responses).httpConfig
          /\ \A i \in UpIdx :
               (~Fetched(i) \/ Len(Selected(i)) = 0) =>
                 /\ ServiceName(config.upstreams[i]) \notin DOMAIN heap[cur].services
                 /\ \A k \in DOMAIN heap[cur].routers :
                      heap[cur].routers[k].from.upstream # config.upstreams[i]
          /\ pc \in {"send", "select", "terminated"} => srvConfig = cur)
  /\ [][\A p \in Handed : p \in DOMAIN heap' => heap'[p] = heap[p]]_vars

\* The second cycle is over; upstream a, which the first snapshot has a
\* service for, failed in it.
C14_Witness ==
  /\ pc = "select" /\ cur = 2 /\ srvConfig = 2
  /\ FetchFails(responses[1])
  /\ 1 \in DOMAIN heap
  /\ ServiceName(config.upstreams[1]) \in DOMAIN heap[1].services
  /\ ServiceName(config.upstreams[1]) \notin DOMAIN heap[2].services

\* ---------------------------------------------------------------------- C15
\* C15: the cycle in progress is the one started last; while it aggregates or
\* publishes, no step starts another one, whether a tick is waiting or not;
\* a new cycle starts only from main's select, which main reaches after the
\* send, with the cycle's snapshot in the query interface.
C15_NoOverlap ==
  /\ [](InCycle(pc) => cur = cycles)
  /\ [][ /\ InCycle(pc) => (cycles' = cycles /\ cur' = cur)
         /\ cycles' # cycles => (pc = "select" /\ srvConfig = cur /\ completed = cur) ]_vars

\* A tick is waiting while the first cycle is publishing.
C15_Witness ==
  /\ tick /\ pc = "assign" /\ cycles = 1 /\ mu.w

\* ---------------------------------------------------------------------- C17
\* C17: main starts in its first aggregation with no tick taken; after that
\* the number of aggregations started grows only by one, only when main's
\* select takes a tick out of the ticker's channel, and every tick the select
\* takes starts one; nothing starts one after main has returned.
C17_OnePerTick ==
  /\ (pc = "aggregate" /\ cycles = 1 /\ nextUp = 1 /\ ~tick)
  /\ [][ /\ cycles' # cycles =>
              /\ cycles' = cycles + 1
              /\ pc = "select" /\ pc' = "aggregate" /\ nextUp' = 1
              /\ tick /\ ~tick'
         /\ (tick /\ ~tick') => (pc = "select" /\ cycles' = cycles + 1)
         /\ (pc # "aggregate" /\ pc' = "aggregate") => cycles' = cycles + 1
         /\ pc = "terminated" => (pc' = pc /\ cycles' = cycles) ]_vars

\* The second aggregation has just started, the tick that started it taken.
C17_Witness ==
  /\ pc = "aggregate" /\ cycles = 2 /\ nextUp = 1 /\ ~tick /\ ~sig

\* ---------------------------------------------------------------------- C16
\* C16, as stated: from the delivery of a stop signal on, no step preempts
\* the cycle in progress and no step starts a further cycle.
C16_Original ==
  [][sig => (cycles' = cycles /\ (InCycle(pc) => pc' # "terminated"))]_vars

\* C16, amended: once a stop signal is delivered, main returns only from its
\* select, with the snapshot of the cycle that was in progress published; a
\* further cycle starts only when a tick is waiting at that select, which
\* may take the tick before the signal; and main does return in the end.
C16_Cooperative ==
  /\ [][ /\ (pc # "terminated" /\ pc' = "terminated") =>
              (pc = "select" /\ (sig \/ cancelled) /\ srvConfig = cur /\ completed = cur)
         /\ (sig /\ cycles' # cycles) => (pc = "select" /\ tick) ]_vars
  /\ [](sig /\ pc = "select" => ENABLED SelectSignal)
  /\ (sig ~> pc = "terminated")

\* The first cycle is over and main stands at its select with both a signal
\* and a tick waiting.
C16_Witness ==
  /\ pc = "select" /\ sig /\ tick /\ ~cancelled
  /\ cycles = 1 /\ srvConfig = 1

\* ---------------------------------------------------------------------- C18
\* C18: while a cycle is fetching and aggregating, the lock of the query
\* interface is neither held nor asked for by the writer, so every step of a
\* handler's read can be taken at once, and what the handler reads is the
\* snapshot of the previous cycle (the initial empty one during the first);
\* the writer holds the lock only between UpdateConfig's Lock and Unlock.
C18_ReadNeverWaits ==
  /\ mu.w => pc \in {"assign", "unlock"}
  /\ mu.pending => pc = "lock"
  /\ pc = "aggregate" =>
       /\ srvConfig = cur - 1 /\ completed = cur - 1
       /\ \A h \in Readers :
            /\ (srvState = "serving" /\ readers[h].pc = "idle") => ENABLED RLock(h)
            /\ readers[h].pc = "rlocked" => ENABLED Read(h)
            /\ readers[h].pc = "read" => (readers[h].config = cur - 1 /\ ENABLED RUnlock(h))

\* A handler has taken the read lock while the second cycle is fetching.
C18_Witness ==
  \E h \in Readers :
    /\ pc = "aggregate" /\ cur = 2 /\ srvConfig = 1
    /\ readers[h].pc = "rlocked" /\ mu.r = 1

\* ---------------------------------------------------------------- C19, C20
\* The whole document of the snapshot at address p.
Document(p) == [exists |-> TRUE, data |-> Render(p, heap[p]), by |-> "writer"]

\* C19: when the writer's loop takes a tick of its ticker, it starts
\* writeConfig on the snapshot it received last, and does nothing when it has
\* received none; a writeConfig in progress is always on the snapshot received
\* last; and its rename puts that snapshot's whole document at the output
\* path, whatever was done to the file there from outside.
C19_TimerRewrite ==
  /\ [][ /\ (wpc = "loop" /\ ftick /\ ~ftick') =>
              IF currentConfig # NoPtr
              THEN wpc' = "create" /\ wconfig' = currentConfig /\ currentConfig' = currentConfig
              ELSE wpc' = "loop" /\ wconfig' = NoPtr /\ final' = final /\ tmp' = tmp
         /\ (wpc = "rename" /\ tmp' # tmp) =>
              (final' = Document(currentConfig) /\ Complete(final')) ]_vars
  /\ [](Writing(wpc) => (wconfig = currentConfig /\ wconfig \in DOMAIN heap))
  /\ [](Running /\ wpc = "loop" /\ ftick => ENABLED TimerWrite)

\* Only one snapshot was ever delivered and its document, once written, was
\* deleted or truncated from outside: the write now about to rename was
\* started by a tick.
C19_Witness ==
  /\ cycles = 1 /\ fileConfigChan = <<>> /\ currentConfig = 1
  /\ final.by = "outside"
  /\ wpc = "rename" /\ tmp = Document(1)

\* The step by which writeConfig returns an error.
FailedWrite == Writing(wpc) /\ ~Writing(wpc') /\ tmp' = tmp

\* C20: writeConfig always returns to the loop of Start; when it returns an
\* error, the output path is as it was, the writer still has the snapshot as
\* the one received last, and neither ctx nor main is touched; back in the
\* loop, the next tick starts a write of that snapshot and a snapshot in the
\* channel can be received.
C20_FailedWrite ==
  /\ [][ /\ (Writing(wpc) /\ ~Writing(wpc')) => wpc' = "loop"
         /\ FailedWrite =>
              /\ final' = final
              /\ currentConfig' = currentConfig /\ currentConfig = wconfig
              /\ pc' = pc /\ cancelled' = cancelled /\ fileConfigChan' = fileConfigChan ]_vars
  /\ [](Running /\ wpc = "loop" /\ currentConfig # NoPtr =>
          /\ ftick => ENABLED (TimerWrite /\ wpc' = "create" /\ wconfig' = currentConfig)
          /\ fileConfigChan # <<>> => ENABLED Receive)

\* The first write failed after creating the temporary file: nothing is at
\* the output path, and a tick is waiting for the loop.
C20_Witness ==
  /\ wpc = "loop" /\ currentConfig = 1 /\ ftick /\ Running
  /\ tmp.exists /\ Len(tmp.data) = 1
  /\ final = NoFile

\* ---------------------------------------------------------------------- C21
\* C21, as stated: once ListenAndServe has failed, no further cycle starts,
\* and the process, when it has ended, has a non-zero exit status.
C21_Original ==
  /\ [][srvState = "failed" => cycles' = cycles]_vars
  /\ [](srvState = "failed" /\ ~Running => (ExitStatus # NoStatus /\ ExitStatus # 0))

\* ---------------------------------------------------------------- C22, C24
\* What the claims call an invalid configuration.
Invalid(c) ==
  \/ Len(c.upstreams) = 0
  \/ \E i \in 1..Len(c.upstreams) :
       c.upstreams[i].name = <<>> \/ c.upstreams[i].adminURL = "" \/ c.upstreams[i].serverURL = ""
  \/ ~c.output.http.enabled /\ ~c.output.file.enabled
  \/ c.output.http.enabled /\ ~(c.output.http.port > 0)
  \/ c.output.file.enabled /\ c.output.file.path = ""

\* C22: Validate returns an error exactly for the invalid configurations;
\* when Load or Validate fails, main's one step ends the process with status
\* 1, with no sink started and no aggregation begun, and otherwise main goes
\* on to its first aggregation.
C22_Validate ==
  /\ [](pc = "start" /\ config.parses =>
          (Validate(Load(config)) # NoError <=> Invalid(config)))
  /\ [][pc = "start" =>
          IF ~config.parses \/ Invalid(config)
          THEN pc' = "exit1" /\ cycles' = 0 /\ srvState' = "off" /\ wpc' = "off"
          ELSE pc' = "aggregate" /\ cycles' = 1]_vars
  /\ [](pc = "exit1" =>
          /\ ExitStatus = 1
          /\ cycles = 0 /\ srvState = "off" /\ wpc = "off" /\ heap = EmptyMap
          /\ ~config.parses \/ Invalid(config))

\* main has exited with status 1 on a configuration whose only fault is the
\* HTTP port 0.
C22_Witness ==
  /\ pc = "exit1" /\ config.parses
  /\ Len(config.upstreams) = 2 /\ ValidateUpstreams(config.upstreams, 1) = NoError
  /\ config.output.http.enabled /\ config.output.http.port = 0
  /\ config.output.file.enabled /\ config.output.file.path # ""

\* C24, as stated: a configuration that Validate has accepted has non-empty,
\* pairwise different upstream names, so the aggregator's table has one
\* client per upstream and no two upstreams have the same service key.
C24_Original ==
  pc = "aggregate" =>
    /\ \A i \in UpIdx : config.upstreams[i].name # <<>>
    /\ DistinctUpstreamNames
    /\ Cardinality(DOMAIN New(config).clients) = Len(config.upstreams)
    /\ \A i, j \in UpIdx :
         ServiceName(config.upstreams[i]) = ServiceName(config.upstreams[j]) => i = j

\* ---------------------------------------------------------------------- C25
\* C25: the output has one entry for each key that some selected router maps
\* to and no other; the entry under a key is derived from the selected router
\* that maps to it and is processed last, upstreams in configuration order
\* and, within an upstream, routers in the order of its list.
C25_LaterWins ==
  result.done =>
    /\ \A i \in UpIdx : Fetched(i) =>
         \A x \in 1..Len(Selected(i)) :
           LET k == RouterName(config.upstreams[i], Selected(i)[x]) IN
           /\ k \in DOMAIN Published
           /\ ~Overwritten(i, x) =>
                /\ Published[k].from = [upstream |-> config.upstreams[i], router |-> Selected(i)[x]]
                /\ Published[k].rule = Selected(i)[x].rule
    /\ \A k \in DOMAIN Published :
         \E i \in UpIdx : Fetched(i) /\ \E x \in 1..Len(Selected(i)) :
           k = RouterName(config.upstreams[i], Selected(i)[x]) /\ ~Overwritten(i, x)

\* Two upstreams each report a selected router of the same key; the entry is
\* the one of the upstream listed second.
C25_Witness ==
  /\ result.done
  /\ \E i, j \in UpIdx :
       /\ i < j /\ Fetched(i) /\ Fetched(j)
       /\ config.upstreams[i] # config.upstreams[j]
       /\ \E x \in 1..Len(Selected(i)), y \in 1..Len(Selected(j)) :
            LET k == RouterName(config.upstreams[j], Selected(j)[y]) IN
            /\ k = RouterName(config.upstreams[i], Selected(i)[x])
            /\ Selected(i)[x] # Selected(j)[y]
            /\ Published[k].from = [upstream |-> config.upstreams[j], router |-> Selected(j)[y]]

\* ---------------------------------------------------------------------- C26
\* C26: in every aggregated output the service every published router names
\* is a key of the services of the same output.
C26_ServiceDefined ==
  result.done =>
    \A k \in DOMAIN Published :
      Published[k].service \in DOMAIN result.httpConfig.services

\* The upstream listed first failed and the second one has a router
\* published; the output defines the second upstream's service and no other.
C26_Witness ==
  /\ result.done
  /\ Len(config.upstreams) = 2
  /\ FetchFails(responses[1])
  /\ Fetched(2) /\ Len(Selected(2)) > 0
  /\ DOMAIN result.httpConfig.services = {ServiceName(config.upstreams[2])}
  /\ \E k \in DOMAIN Published : Published[k].service = ServiceName(config.upstreams[2])

\* ---------------------------------------------------------------------- C27
\* The cycle of the snapshot whose rendering is at the output path.
AtFinal == final.data[1].of

\* C27: a write to the output path never replaces the rendering of one
\* cycle's snapshot by that of an earlier cycle, and the snapshot at the
\* output path is never of a later cycle than the one the scheduler last
\* handed to the query interface.
C27_NeverBackwards ==
  /\ [][(final.exists /\ final.data # <<>> /\ final'.exists /\ final'.data # <<>>)
          => AtFinal' >= AtFinal]_vars
  /\ [](final.exists /\ final.data # <<>> => AtFinal <= srvConfig)

\* The second cycle's delivery was dropped: the query interface serves the
\* second snapshot, the writer still remembers the first, whose document is
\* at the output path, and a rewrite of it by the timer is about to land.
C27_Witness ==
  /\ cycles = 2 /\ pc = "select" /\ srvConfig = 2
  /\ fileConfigChan = <<>> /\ currentConfig = 1
  /\ final = Document(1)
  /\ wpc = "rename" /\ tmp = Document(1)

====
